---- MODULE Spec2Model ----
(***************************************************************************)
(* ShopEase agentic analyst: the dual-mode router (agent.py), the          *)
(* rule-based planner (agent.py), the knowledge base (rag.py) and the      *)
(* analytic tool singleton (tools.py).                                     *)
(*                                                                         *)
(* Every text (query, document, tool result, response) is a sequence of    *)
(* chunks.  A query is a sequence of one-character chunks, so lower(),     *)
(* "in" and startswith() are computed character by character.              *)
(***************************************************************************)
EXTENDS Integers, Sequences, FiniteSets, TLC

\* ------------------------------------------------------------------ bounds
MaxParts == 1        \* parts (keywords or phrases) per query
MaxExecCalls == 1    \* tool calls the external executor makes per query

\* ------------------------------------------------------------ string basics
UpperChars == <<"A", "B", "C", "D", "E", "F", "G", "H", "I", "J", "K", "L", "M",
                "N", "O", "P", "Q", "R", "S", "T", "U", "V", "W", "X", "Y", "Z">>
LowerChars == <<"a", "b", "c", "d", "e", "f", "g", "h", "i", "j", "k", "l", "m",
                "n", "o", "p", "q", "r", "s", "t", "u", "v", "w", "x", "y", "z">>

\* str.lower() on one character
LowerChar(c) ==
  IF \E i \in 1..Len(UpperChars) : UpperChars[i] = c
  THEN LowerChars[CHOOSE i \in 1..Len(UpperChars) : UpperChars[i] = c]
  ELSE c

\* str.lower()
lower(s) == [i \in 1..Len(s) |-> LowerChar(s[i])]

\* Python's  k in s  on texts: k is a contiguous part of s
Contains(s, k) ==
  \E i \in 1..(Len(s) - Len(k) + 1) : SubSeq(s, i, i + Len(k) - 1) = k

\* str.startswith()
startswith(s, p) == Len(s) >= Len(p) /\ SubSeq(s, 1, Len(p)) = p

\* "\n".join(parts) and " ".join(parts)
RECURSIVE join(_, _)
join(sep, parts) ==
  IF parts = <<>> THEN <<>>
  ELSE IF Len(parts) = 1 THEN parts[1]
  ELSE parts[1] \o sep \o join(sep, Tail(parts))

\* ---------------------------------------------------------------- literals
kw_delivery  == <<"d", "e", "l", "i", "v", "e", "r", "y">>
kw_channel   == <<"c", "h", "a", "n", "n", "e", "l">>
kw_city      == <<"c", "i", "t", "y">>
kw_region    == <<"r", "e", "g", "i", "o", "n">>
kw_gender    == <<"g", "e", "n", "d", "e", "r">>
kw_demograph == <<"d", "e", "m", "o", "g", "r", "a", "p", "h">>
kw_visit     == <<"v", "i", "s", "i", "t">>
kw_engage    == <<"e", "n", "g", "a", "g", "e">>
kw_model     == <<"m", "o", "d", "e", "l">>
kw_predict   == <<"p", "r", "e", "d", "i", "c", "t">>
kw_driver    == <<"d", "r", "i", "v", "e", "r">>
kw_churn     == <<"c", "h", "u", "r", "n">>
kw_problem   == <<"p", "r", "o", "b", "l", "e", "m">>
kw_discount  == <<"d", "i", "s", "c", "o", "u", "n", "t">>
kw_suspect   == <<"s", "u", "s", "p", "e", "c", "t">>
kw_budget    == <<"b", "u", "d", "g", "e", "t">>
kw_cost      == <<"c", "o", "s", "t">>
kw_paste_your == <<"p", "a", "s", "t", "e", "_", "y", "o", "u", "r">>

None == "None"

\* ----------------------------------------------------------- knowledge base
\* BusinessKnowledgeBase.documents: key -> text (one chunk per document)
documents ==
  [background  |-> <<"ShopEase is a mid-size E-commerce Platform">>,
   problem     |-> <<"Leadership is concerned about increasing customer churn">>,
   hypotheses  |-> <<"Leadership suspects poor delivery experience">>,
   constraints |-> <<"Marketing budget is capped">>]

Newline == <<"\n">>

\* the three independent ifs of retrieve_context, on the lower-cased query
DocsProblem(q) ==
  IF Contains(q, kw_churn) \/ Contains(q, kw_problem)
  THEN <<documents.problem>> ELSE <<>>

DocsHypotheses(q) ==
  IF Contains(q, kw_delivery) \/ Contains(q, kw_discount) \/ Contains(q, kw_suspect)
  THEN <<documents.hypotheses>> ELSE <<>>

DocsConstraints(q) ==
  IF Contains(q, kw_budget) \/ Contains(q, kw_cost)
  THEN <<documents.constraints>> ELSE <<>>

\* A first-match (elif) retrieval: what the rules would give if they were exclusive.
relevant_docs_first_match(query) ==
  LET q == lower(query) IN
  IF DocsProblem(q) # <<>> THEN DocsProblem(q)
  ELSE IF DocsHypotheses(q) # <<>> THEN DocsHypotheses(q)
  ELSE IF DocsConstraints(q) # <<>> THEN DocsConstraints(q)
  ELSE <<documents.background>>

\* relevant_docs as retrieve_context builds it
relevant_docs(query) ==
  LET q == lower(query)
      matched == DocsProblem(q) \o DocsHypotheses(q) \o DocsConstraints(q)
  IN IF matched = <<>> THEN <<documents.background>> ELSE matched

\* BusinessKnowledgeBase.retrieve_context
retrieve_context(query) == join(Newline, relevant_docs(query))

\* the get_business_context tool
get_business_context(query) == retrieve_context(query)

\* ------------------------------------------------------------ analytic tools
\* what a call gives its caller: a returned text or a raised exception
Ret(text) == [kind |-> "return", value |-> text, error |-> "none"]
Raise(err) == [kind |-> "raise", value |-> <<>>, error |-> err]
NoOutcome == [kind |-> "none", value |-> <<>>, error |-> "none"]

ErrNotLoaded == <<"Error: Data not loaded.">>

\* the environment of one tool invocation: can the plot directory be made,
\* can the csv files be read and merged, does the computation/plot go through
Envs == [dir : {"ok", "fail"}, csv : {"ok", "fail"}, calc : {"ok", "fault"}]

\* _TOOLS_INSTANCE = None
NoInstance == [exists |-> FALSE, df |-> None]

\* DataAnalystTools.load_data: the value of self.df when it returns
\* (any exception is caught, leaving self.df = None)
load_data(csv) == IF csv = "ok" THEN "loaded" ELSE None

\* DataAnalystTools.__init__: os.makedirs is outside any try; load_data follows
DataAnalystTools_init(env) ==
  IF env.dir = "fail"
  THEN [raised |-> TRUE, inst |-> NoInstance, loads |-> 0]
  ELSE [raised |-> FALSE, inst |-> [exists |-> TRUE, df |-> load_data(env.csv)],
        loads |-> 1]

\* get_tools_instance: build the singleton only when there is none
get_tools_instance(inst, env) ==
  IF ~inst.exists THEN DataAnalystTools_init(env)
  ELSE [raised |-> FALSE, inst |-> inst, loads |-> 0]

\* the seven methods of DataAnalystTools; the computation on a loaded dataset
\* (column lookups, plotting, model fitting) runs outside any try
get_summary_stats(df, calc) ==
  IF df = None THEN Ret(ErrNotLoaded)
  ELSE IF calc = "fault" THEN Raise("ToolFault") ELSE Ret(<<"Summary: ...">>)

analyze_delivery_impact(df, calc) ==
  IF df = None THEN Ret(ErrNotLoaded)
  ELSE IF calc = "fault" THEN Raise("ToolFault")
  ELSE Ret(<<"Delivery Analysis: ...", "[VISUALIZATION]: delivery_impact.png">>)

analyze_channels(df, calc) ==
  IF df = None THEN Ret(ErrNotLoaded)
  ELSE IF calc = "fault" THEN Raise("ToolFault")
  ELSE Ret(<<"Channel Analysis: ...", "[VISUALIZATION]: channel_churn.png">>)

analyze_city_impact(df, calc) ==
  IF df = None THEN Ret(ErrNotLoaded)
  ELSE IF calc = "fault" THEN Raise("ToolFault") ELSE Ret(<<"Churn by City: ...">>)

analyze_demographics(df, calc) ==
  IF df = None THEN Ret(ErrNotLoaded)
  ELSE IF calc = "fault" THEN Raise("ToolFault") ELSE Ret(<<"Churn by Gender: ...">>)

\* analyze_engagement without its  if self.df is None  guard
analyze_engagement_unguarded(df, calc) ==
  IF df = None \/ calc = "fault" THEN Raise("ToolFault")
  ELSE Ret(<<"Engagement: ...", "[VISUALIZATION]: engagement_impact.png">>)

analyze_engagement(df, calc) ==
  IF df = None THEN Ret(ErrNotLoaded)
  ELSE IF calc = "fault" THEN Raise("ToolFault")
  ELSE Ret(<<"Engagement: ...", "[VISUALIZATION]: engagement_impact.png">>)

train_model(df, calc) ==
  IF df = None THEN Ret(ErrNotLoaded)
  ELSE IF calc = "fault" THEN Raise("ToolFault")
  ELSE Ret(<<"Model Trained. Top Factors: ...", "[VISUALIZATION]: feature_importance.png">>)

\* the seven @tool wrappers, by tool name
AnalyticTools ==
  {"get_data_summary", "analyze_delivery_impact", "analyze_channel_performance",
   "analyze_city_performance", "analyze_demographics", "analyze_engagement",
   "train_predictive_model"}

\* the method a wrapper calls on the instance
Method(tool, df, calc) ==
  CASE tool = "get_data_summary"            -> get_summary_stats(df, calc)
    [] tool = "analyze_delivery_impact"     -> analyze_delivery_impact(df, calc)
    [] tool = "analyze_channel_performance" -> analyze_channels(df, calc)
    [] tool = "analyze_city_performance"    -> analyze_city_impact(df, calc)
    [] tool = "analyze_demographics"        -> analyze_demographics(df, calc)
    [] tool = "analyze_engagement"          -> analyze_engagement(df, calc)
    [] tool = "train_predictive_model"      -> train_model(df, calc)

\* tool.invoke({}): get_tools_instance().<method>()
InvokeTool(tool, inst, env) ==
  LET g == get_tools_instance(inst, env) IN
  IF g.raised
  THEN [out |-> Raise("OSError"), inst |-> inst, loads |-> 0]
  ELSE [out |-> Method(tool, g.inst.df, env.calc), inst |-> g.inst, loads |-> g.loads]

\* ------------------------------------------------------- rule-based planner
Intents ==
  {"delivery", "channel", "city", "demographics", "engagement", "model", "summary"}

\* The keyword chain with its first two rules swapped.
Intent_channel_first(q) ==
  IF Contains(q, kw_channel) THEN "channel"
  ELSE IF Contains(q, kw_delivery) THEN "delivery"
  ELSE IF Contains(q, kw_city) \/ Contains(q, kw_region) THEN "city"
  ELSE IF Contains(q, kw_gender) \/ Contains(q, kw_demograph) THEN "demographics"
  ELSE IF Contains(q, kw_visit) \/ Contains(q, kw_engage) THEN "engagement"
  ELSE IF Contains(q, kw_model) \/ Contains(q, kw_predict) \/ Contains(q, kw_driver)
       THEN "model"
  ELSE "summary"

\* the if/elif chain of _mock_process_query: which branch is taken
Intent(q) ==
  IF Contains(q, kw_delivery) THEN "delivery"
  ELSE IF Contains(q, kw_channel) THEN "channel"
  ELSE IF Contains(q, kw_city) \/ Contains(q, kw_region) THEN "city"
  ELSE IF Contains(q, kw_gender) \/ Contains(q, kw_demograph) THEN "demographics"
  ELSE IF Contains(q, kw_visit) \/ Contains(q, kw_engage) THEN "engagement"
  ELSE IF Contains(q, kw_model) \/ Contains(q, kw_predict) \/ Contains(q, kw_driver)
       THEN "model"
  ELSE "summary"

\* the tool each branch invokes
ToolFor(intent) ==
  CASE intent = "delivery"     -> "analyze_delivery_impact"
    [] intent = "channel"      -> "analyze_channel_performance"
    [] intent = "city"         -> "analyze_city_performance"
    [] intent = "demographics" -> "analyze_demographics"
    [] intent = "engagement"   -> "analyze_engagement"
    [] intent = "model"        -> "train_predictive_model"
    [] intent = "summary"      -> "get_data_summary"

\* plan = "check context" before the chain
DefaultPlan == <<"check context">>

\* the value of plan after each branch: three branches leave the default
PlanFor(intent) ==
  CASE intent = "delivery"     -> <<"investigate delivery times">>
    [] intent = "channel"      -> <<"check acquisition channels">>
    [] intent = "city"         -> <<"check city breaks">>
    [] intent = "demographics" -> DefaultPlan
    [] intent = "engagement"   -> DefaultPlan
    [] intent = "model"        -> <<"train ML model">>
    [] intent = "summary"      -> DefaultPlan

\* the fixed parts of the final_response f-string
RespHead == <<"--- AGENT RESPONSE (MOCK MODE) ---", "Based on the Mock Logic: The user asked about '">>
RespMid == <<"'.", "Analysis Result:">>
RespFoot ==
  <<"Recommendation:",
    "(Simulated) Please investigate the highlighted metrics above, specifically targeting high-churn segments.",
    "----------------------">>

\* final_response: the f-string, whose fields are plan and result
final_response(plan_, result_) ==
  RespHead \o plan_ \o RespMid \o result_ \o RespFoot

\* ------------------------------------------------------------------- inputs
word_Delivery == <<"D", "e", "l", "i", "v", "e", "r", "y">>
word_CHANNEL  == <<"C", "H", "A", "N", "N", "E", "L">>
word_Hello    == <<"H", "e", "l", "l", "o">>
word_deliver  == <<"d", "e", "l", "i", "v", "e", "r">>
word_Engagement == <<"E", "n", "g", "a", "g", "e", "m", "e", "n", "t">>
word_Does     == <<"D", "o", "e", "s">>
word_time     == <<"t", "i", "m", "e">>
word_affect   == <<"a", "f", "f", "e", "c", "t">>
word_our      == <<"o", "u", "r">>
word_performance == <<"p", "e", "r", "f", "o", "r", "m", "a", "n", "c", "e">>
Blank == <<" ">>
QuestionMark == <<"?">>

\* "Does delivery affect our channel performance?"
phrase_delivery_channel ==
  join(Blank, <<word_Does, kw_delivery, word_affect, word_our, kw_channel,
                word_performance \o QuestionMark>>)

\* "Does delivery time affect churn?"
phrase_delivery_churn ==
  join(Blank, <<word_Does, kw_delivery, word_time, word_affect,
                kw_churn \o QuestionMark>>)

\* "channel delivery", "churn budget", "gender visit"
phrase_channel_delivery == join(Blank, <<kw_channel, kw_delivery>>)
phrase_churn_budget == join(Blank, <<kw_churn, kw_budget>>)
phrase_gender_visit == join(Blank, <<kw_gender, kw_visit>>)

\* the parts queries are made of: every keyword of the planner and of the
\* knowledge base, keywords in another case or inside a longer word, a near
\* miss, a neutral word, and phrases holding two keywords
QueryParts ==
  {kw_delivery, kw_channel, kw_city, kw_region, kw_gender, kw_demograph,
   kw_visit, kw_engage, kw_model, kw_predict, kw_driver,
   kw_churn, kw_problem, kw_discount, kw_suspect, kw_budget, kw_cost,
   word_Delivery, word_CHANNEL, word_Engagement, word_Hello, word_deliver,
   phrase_delivery_channel, phrase_delivery_churn, phrase_channel_delivery,
   phrase_churn_budget, phrase_gender_visit}

\* the query strings: up to MaxParts parts separated by one blank
Queries ==
  {join(Blank, ws) : ws \in UNION {[1..n -> QueryParts] : n \in 0..MaxParts}}

\* os.getenv("OPENAI_API_KEY"): unset, empty, a placeholder, a key that differs
\* from the placeholder prefix in case only, and a real key
ApiKeys ==
  {[set |-> FALSE, val |-> <<>>],
   [set |-> TRUE,  val |-> <<>>],
   [set |-> TRUE,  val |-> kw_paste_your \o <<"_", "k", "e", "y">>],
   [set |-> TRUE,  val |-> <<"P", "a", "s", "t", "e", "_", "y", "o", "u", "r">>],
   [set |-> TRUE,  val |-> <<"s", "k">>]}

\* the answers the external executor may give
Answers == {<<"LLM answer">>, <<"Error: Data not loaded.">>, <<>>}

\* self.tools: the eight tools bound to the executor
RegisteredTools == {"get_business_context"} \cup AnalyticTools

\* -------------------------------------------------------------------- state
VARIABLES
  api_key,          \* the OPENAI_API_KEY of the environment
  pc,               \* "boot", "idle", "primary", "kb", "route", "compose", "done"
  use_mock,         \* self.use_mock
  agent_executor,   \* whether self.agent_executor is bound
  construct_result, \* history: "none" or how building the executor ended
  TOOLS_INSTANCE,   \* tools._TOOLS_INSTANCE
  loads,            \* history: number of load_data() calls in this process
  tool_invoked,     \* history: some analytic tool has been invoked
  query,            \* the query being processed
  via,              \* history: "none", "mock", "primary" or "fallback"
  fell_back,        \* history: some earlier query fell back after a failure
  exec_calls,       \* tool calls the executor made for this query
  exec_output,      \* history: response["output"] of the executor
  calls,            \* history: the planner's tool invocations for this query
  context,          \* _mock_process_query: context
  plan,             \* _mock_process_query: plan
  result,           \* _mock_process_query: result
  outcome           \* what process_query gave its caller

vars ==
  <<api_key, pc, use_mock, agent_executor, construct_result, TOOLS_INSTANCE,
    loads, tool_invoked, query, via, fell_back, exec_calls, exec_output,
    calls, context, plan, result, outcome>>

\* the variables of one query
perQuery == <<query, via, exec_calls, exec_output, calls, context, plan, result, outcome>>
\* the variables of the agent object
agentVars == <<api_key, use_mock, agent_executor, construct_result>>
\* the variables of the tools module
toolVars == <<TOOLS_INSTANCE, loads, tool_invoked>>

Init ==
  /\ api_key \in ApiKeys
  /\ pc = "boot"
  /\ use_mock = FALSE
  /\ agent_executor = FALSE
  /\ construct_result = "none"
  /\ TOOLS_INSTANCE = NoInstance
  /\ loads = 0
  /\ tool_invoked = FALSE
  /\ query = <<>>
  /\ via = "none"
  /\ fell_back = FALSE
  /\ exec_calls = 0
  /\ exec_output = <<>>
  /\ calls = <<>>
  /\ context = <<>>
  /\ plan = <<>>
  /\ result = <<>>
  /\ outcome = NoOutcome

\* ------------------------------------------------- ShopEaseAnalyst.__init__
\* A check that only looks for a missing key.
NoValidKey_absent_only(key) == ~key.set \/ key.val = <<>>

\* not api_key or api_key.startswith("paste_your")
NoValidKey(key) ==
  (~key.set \/ key.val = <<>>) \/ startswith(key.val, kw_paste_your)

\* how building the executor inside the try can end
ConstructResults == {"ok", "ImportError", "Exception"}

\* __init__ on the branch without a usable key
InitMock ==
  /\ pc = "boot"
  /\ NoValidKey(api_key)
  /\ use_mock' = TRUE
  /\ pc' = "idle"
  /\ UNCHANGED <<api_key, agent_executor, construct_result, fell_back>>
  /\ UNCHANGED <<toolVars, perQuery>>

\* __init__ on the branch that builds the executor inside try/except
InitPrimary ==
  /\ pc = "boot"
  /\ ~NoValidKey(api_key)
  /\ \E r \in ConstructResults :
       /\ construct_result' = r
       /\ agent_executor' = (r = "ok")
       /\ use_mock' = (r # "ok")
  /\ pc' = "idle"
  /\ UNCHANGED <<api_key, fell_back>>
  /\ UNCHANGED <<toolVars, perQuery>>

\* ---------------------------------------------- ShopEaseAnalyst.process_query
\* process_query(query) up to the mode test
ReceiveQuery ==
  /\ pc = "idle"
  /\ \E q \in Queries : query' = q
  /\ IF use_mock
     THEN pc' = "kb" /\ via' = "mock"
     ELSE pc' = "primary" /\ via' = "primary"
  /\ UNCHANGED <<exec_calls, exec_output, calls, context, plan, result, outcome>>
  /\ UNCHANGED <<agentVars, toolVars, fell_back>>

\* An except clause that re-raises instead of falling back.
HandlePrimaryFailure_reraise ==
  /\ pc' = "done"
  /\ outcome' = Raise("PrimaryError")
  /\ UNCHANGED <<via, fell_back, use_mock>>

\* An except clause that also switches the agent to mock mode for good.
HandlePrimaryFailure_sticky ==
  /\ pc' = "kb"
  /\ via' = "fallback"
  /\ fell_back' = TRUE
  /\ use_mock' = TRUE
  /\ UNCHANGED outcome

\* except Exception: return self._mock_process_query(query)
HandlePrimaryFailure ==
  /\ pc' = "kb"
  /\ via' = "fallback"
  /\ fell_back' = TRUE
  /\ UNCHANGED <<use_mock, outcome>>

\* the executor, inside agent_executor.invoke, calls one of its tools; a tool
\* that raises makes invoke raise
ExecutorCallsTool ==
  /\ pc = "primary"
  /\ exec_calls < MaxExecCalls
  /\ exec_calls' = exec_calls + 1
  /\ \E t \in RegisteredTools, env \in Envs :
       IF t = "get_business_context"
       THEN UNCHANGED <<toolVars, pc, via, fell_back, use_mock, outcome>>
       ELSE LET r == InvokeTool(t, TOOLS_INSTANCE, env) IN
            /\ TOOLS_INSTANCE' = r.inst
            /\ loads' = loads + r.loads
            /\ tool_invoked' = TRUE
            /\ IF r.out.kind = "raise"
               THEN HandlePrimaryFailure
               ELSE UNCHANGED <<pc, via, fell_back, use_mock, outcome>>
  /\ UNCHANGED <<api_key, agent_executor, construct_result>>
  /\ UNCHANGED <<query, exec_output, calls, context, plan, result>>

\* invoke returns and response["output"] is returned as it is
ExecutorReturns ==
  /\ pc = "primary"
  /\ \E ans \in Answers :
       LET response == [output |-> ans] IN
       /\ exec_output' = ans
       /\ outcome' = Ret(response.output)
  /\ pc' = "done"
  /\ UNCHANGED <<agentVars, toolVars, fell_back>>
  /\ UNCHANGED <<query, via, exec_calls, calls, context, plan, result>>

\* invoke raises, or its response has no "output" key (KeyError): both are
\* caught by  except Exception
ExecutorFails ==
  /\ pc = "primary"
  /\ HandlePrimaryFailure
  /\ UNCHANGED <<api_key, agent_executor, construct_result, toolVars>>
  /\ UNCHANGED <<query, exec_calls, exec_output, calls, context, plan, result>>

\* ----------------------------------------- ShopEaseAnalyst._mock_process_query
\* A lookup that is given the lower-cased query.
MockConsultKB_lowered ==
  /\ pc = "kb"
  /\ context' = get_business_context(lower(query))
  /\ calls' = Append(calls, [op |-> "get_business_context", arg |-> lower(query)])
  /\ pc' = "route"
  /\ UNCHANGED <<agentVars, toolVars, fell_back>>
  /\ UNCHANGED <<query, via, exec_calls, exec_output, plan, result, outcome>>

\* context = get_business_context.invoke(query)
MockConsultKB ==
  /\ pc = "kb"
  /\ context' = get_business_context(query)
  /\ calls' = Append(calls, [op |-> "get_business_context", arg |-> query])
  /\ pc' = "route"
  /\ UNCHANGED <<agentVars, toolVars, fell_back>>
  /\ UNCHANGED <<query, via, exec_calls, exec_output, plan, result, outcome>>

\* q = query.lower(); the if/elif chain: one tool.invoke({}) and the plan label.
\* An exception of the tool is caught nowhere and leaves process_query.
MockDispatch ==
  /\ pc = "route"
  /\ LET q == lower(query)
         intent == Intent(q)
         tool == ToolFor(intent)
     IN \E env \in Envs :
          LET r == InvokeTool(tool, TOOLS_INSTANCE, env) IN
          /\ calls' = Append(calls, [op |-> tool, arg |-> <<>>])
          /\ TOOLS_INSTANCE' = r.inst
          /\ loads' = loads + r.loads
          /\ tool_invoked' = TRUE
          /\ IF r.out.kind = "raise"
             THEN /\ outcome' = r.out
                  /\ pc' = "done"
                  /\ UNCHANGED <<plan, result>>
             ELSE /\ result' = r.out.value
                  /\ plan' = PlanFor(intent)
                  /\ pc' = "compose"
                  /\ UNCHANGED outcome
  /\ UNCHANGED <<agentVars, fell_back>>
  /\ UNCHANGED <<query, via, exec_calls, exec_output, context>>

\* final_response = f"..."; return final_response
MockCompose ==
  /\ pc = "compose"
  /\ outcome' = Ret(final_response(plan, result))
  /\ pc' = "done"
  /\ UNCHANGED <<agentVars, toolVars, fell_back>>
  /\ UNCHANGED <<query, via, exec_calls, exec_output, calls, context, plan, result>>

\* the caller has the outcome; the query and the locals of the call are gone
Finish ==
  /\ pc = "done"
  /\ pc' = "idle"
  /\ query' = <<>>
  /\ via' = "none"
  /\ exec_calls' = 0
  /\ exec_output' = <<>>
  /\ calls' = <<>>
  /\ context' = <<>>
  /\ plan' = <<>>
  /\ result' = <<>>
  /\ outcome' = NoOutcome
  /\ UNCHANGED <<agentVars, toolVars, fell_back>>

Next ==
  \/ InitMock
  \/ InitPrimary
  \/ ReceiveQuery
  \/ ExecutorCallsTool
  \/ ExecutorReturns
  \/ ExecutorFails
  \/ MockConsultKB
  \/ MockDispatch
  \/ MockCompose
  \/ Finish

Spec == Init /\ [][Next]_vars

\* ------------------------------------------------- reading a Response back
\* where the "'. / Analysis Result:" part of the template starts
MidIndex(r) ==
  CHOOSE i \in 1..Len(r) :
    /\ SubSeq(r, i, i + Len(RespMid) - 1) = RespMid
    /\ \A j \in 1..(i - 1) : SubSeq(r, j, j + Len(RespMid) - 1) # RespMid

\* r is laid out as the template: head, label, middle, result, footer
IsResponse(r) ==
  /\ Len(r) >= Len(RespHead) + Len(RespMid) + Len(RespFoot)
  /\ startswith(r, RespHead)
  /\ Contains(r, RespMid)
  /\ SubSeq(r, Len(r) - Len(RespFoot) + 1, Len(r)) = RespFoot

PlanField(r) == SubSeq(r, Len(RespHead) + 1, MidIndex(r) - 1)
ResultField(r) == SubSeq(r, MidIndex(r) + Len(RespMid), Len(r) - Len(RespFoot))

\* the planner has handled (or is handling) the current query
ByPlanner == via \in {"mock", "fallback"}
KBCall(q) == [op |-> "get_business_context", arg |-> q]
Has(k) == Contains(lower(query), k)

\* ------------------------------------------------------------------- claims

C2_NoErrorEscapes == pc = "done" => outcome.kind = "return"

\* C3: the planner dispatches exactly one analytic tool per query, the tool of
\* the first matching rule in the order delivery, channel, city/region,
\* gender/demograph, visit/engage, model/predict/driver, else data summary.
C3_FirstRuleWins ==
  (ByPlanner /\ pc \in {"compose", "done"}) =>
    /\ Cardinality({i \in 1..Len(calls) : calls[i].op \in AnalyticTools}) = 1
    /\ LET t == calls[Len(calls)].op
           r1 == Has(kw_delivery)
           r2 == Has(kw_channel)
           r3 == Has(kw_city) \/ Has(kw_region)
           r4 == Has(kw_gender) \/ Has(kw_demograph)
           r5 == Has(kw_visit) \/ Has(kw_engage)
           r6 == Has(kw_model) \/ Has(kw_predict) \/ Has(kw_driver)
       IN /\ (t = "analyze_delivery_impact") <=> r1
          /\ (t = "analyze_channel_performance") <=> (~r1 /\ r2)
          /\ (t = "analyze_city_performance") <=> (~r1 /\ ~r2 /\ r3)
          /\ (t = "analyze_demographics") <=> (~r1 /\ ~r2 /\ ~r3 /\ r4)
          /\ (t = "analyze_engagement") <=> (~r1 /\ ~r2 /\ ~r3 /\ ~r4 /\ r5)
          /\ (t = "train_predictive_model") <=>
               (~r1 /\ ~r2 /\ ~r3 /\ ~r4 /\ ~r5 /\ r6)
          /\ (t = "get_data_summary") <=>
               (~r1 /\ ~r2 /\ ~r3 /\ ~r4 /\ ~r5 /\ ~r6)

C3_Witness ==
  /\ via = "mock" /\ pc = "compose"
  /\ Has(kw_delivery) /\ Has(kw_channel)
  /\ calls[2].op = "analyze_delivery_impact"

\* C4: initialization selects Fallback mode without attempting to build the
\* Primary capability when the key is absent, empty or starts with
\* "paste_your"; with a usable key it selects Primary mode exactly when the
\* build succeeds, and a failed build gives Fallback mode.
C4_ModeSelection ==
  /\ pc = "boot" => ENABLED (InitMock \/ InitPrimary)
  /\ pc # "boot" =>
       LET k == api_key.val
           unusable ==
             \/ ~api_key.set
             \/ Len(k) = 0
             \/ (Len(k) >= 10 /\ [i \in 1..10 |-> k[i]] = kw_paste_your)
       IN /\ unusable =>
               use_mock /\ construct_result = "none" /\ ~agent_executor
          /\ ~unusable =>
               /\ construct_result \in ConstructResults
               /\ use_mock <=> (construct_result # "ok")
               /\ agent_executor <=> (construct_result = "ok")

C4_Witness ==
  /\ pc = "idle" /\ use_mock /\ construct_result = "none"
  /\ Len(api_key.val) > Len(kw_paste_your)

\* C5: process_query never changes the mode: after initialization use_mock
\* keeps its value, and a Primary-mode agent enters the Primary capability on
\* every query, also after earlier queries fell back.
C5_ModeFixed ==
  [][ /\ pc # "boot" => use_mock' = use_mock
      /\ (pc = "idle" /\ pc' # "idle" /\ ~use_mock) => pc' = "primary"
    ]_vars

C5_Witness == fell_back /\ pc = "primary" /\ ~use_mock /\ exec_calls > 0

\* C6: retrieval evaluates its three rules independently and returns the
\* matched documents in the order problem, hypotheses, constraints; it returns
\* exactly the background document iff no rule matches.
C6_Retrieval ==
  (ByPlanner /\ pc \in {"route", "compose", "done"}) =>
    LET docs == SelectSeq(context, LAMBDA c : <<c>> # Newline)
        in(d) == \E i \in 1..Len(docs) : <<docs[i]>> = d
        rank(c) == CASE <<c>> = documents.problem -> 1
                     [] <<c>> = documents.hypotheses -> 2
                     [] <<c>> = documents.constraints -> 3
                     [] OTHER -> 4
        m1 == Has(kw_churn) \/ Has(kw_problem)
        m2 == Has(kw_delivery) \/ Has(kw_discount) \/ Has(kw_suspect)
        m3 == Has(kw_budget) \/ Has(kw_cost)
    IN /\ Len(docs) >= 1
       /\ Len(context) = 2 * Len(docs) - 1
       /\ \A i \in 1..Len(context) :
            (<<context[i]>> = Newline) <=> (i % 2 = 0)
       /\ in(documents.problem) <=> m1
       /\ in(documents.hypotheses) <=> m2
       /\ in(documents.constraints) <=> m3
       /\ in(documents.background) <=> (~m1 /\ ~m2 /\ ~m3)
       /\ in(documents.background) => docs = documents.background
       /\ \A i, j \in 1..Len(docs) : i < j => rank(docs[i]) < rank(docs[j])

C6_Witness ==
  /\ via = "mock" /\ pc = "route"
  /\ context = documents.problem \o Newline \o documents.constraints

\* C7: with the dataset not loaded every analytic tool returns the error
\* string instead of raising, and the planner's Response carries that string
\* in its analysis-result field.
C7_DataNotLoaded ==
  /\ \A t \in AnalyticTools, calc \in {"ok", "fault"} :
       Method(t, None, calc) = Ret(ErrNotLoaded)
  /\ (ByPlanner /\ pc \in {"compose", "done"}
        /\ TOOLS_INSTANCE.exists /\ TOOLS_INSTANCE.df = None) =>
       /\ result = ErrNotLoaded
       /\ pc = "done" =>
            /\ outcome.kind = "return"
            /\ IsResponse(outcome.value)
            /\ ResultField(outcome.value) = ErrNotLoaded

C7_Witness ==
  /\ via = "mock" /\ pc = "done" /\ outcome.kind = "return"
  /\ TOOLS_INSTANCE.exists /\ TOOLS_INSTANCE.df = None
  /\ calls[2].op = "analyze_engagement"

\* C8: the Response's plan label identifies the classified intent (each of the
\* seven intents has its own label), a query containing "delivery" gets the
\* label "investigate delivery times", and the Response carries the tool's
\* result unmodified and the fixed footer.
C8_LabelIdentifiesIntent ==
  (ByPlanner /\ pc = "done" /\ outcome.kind = "return") =>
    /\ IsResponse(outcome.value)
    /\ ResultField(outcome.value) = result
    /\ Has(kw_delivery) =>
         PlanField(outcome.value) = <<"investigate delivery times">>
    /\ \A i \in Intents :
         PlanFor(i) = PlanField(outcome.value) => i = Intent(lower(query))

\* C9: the planner invokes the context lookup exactly once, with the raw
\* query, before it dispatches the analytic tool; tools get no argument
\* derived from the query and the context is not part of the Response.
C9_ContextFirst ==
  ByPlanner =>
    /\ pc = "kb" => calls = <<>>
    /\ pc = "route" => calls = <<KBCall(query)>>
    /\ pc \in {"compose", "done"} =>
         /\ Len(calls) = 2
         /\ calls[1] = KBCall(query)
         /\ calls[2].op \in AnalyticTools
         /\ calls[2].arg = <<>>
    /\ (pc = "done" /\ outcome.kind = "return") =>
         /\ context # <<>>
         /\ ~Contains(outcome.value, context)
         /\ \A i \in 1..Len(context) : ~Contains(outcome.value, <<context[i]>>)

C9_Witness ==
  /\ via = "mock" /\ pc = "done" /\ outcome.kind = "return"
  /\ query # lower(query)
  /\ Len(context) > 1

\* C10: the first tool invocation creates the singleton and attempts the one
\* load of the process; later invocations reuse it without reloading.
C10_FirstInvocationLoads ==
  /\ loads <= 1
  /\ tool_invoked => (TOOLS_INSTANCE.exists /\ loads = 1)

====
